---- MODULE Spec2Model ----
(***************************************************************************)
(* Model of the ROI codec of src/api/utils/roi.py: the field schema        *)
(* (ROIFileObject), the encoder (ROIEncoder.write / write_zip) and the     *)
(* decoder (ROIDecoder.read / read_zip).                                   *)
(*                                                                         *)
(* Files are sequences of bytes (0..255); struct.pack / struct.unpack are  *)
(* modelled bit-exactly for the formats the schema uses ('b', 'h', 'i',    *)
(* 'f', 'Ns'), big-endian.  Python strings are sequences of one-character  *)
(* strings.  Python floats are modelled by the integers (every coordinate  *)
(* the model draws is integer valued, so float(x) is exact); a float32     *)
(* bit pattern that is not an integer is kept as a tagged bit pattern.     *)
(***************************************************************************)
EXTENDS Integers, Sequences, FiniteSets, TLC

\* ------------------------------------------------------------ bounds
\* Largest number of coordinate pairs of a shape ROI the model draws.
MaxPairs == 2
\* Largest number of ROIs handed to one write_zip call.
MaxRois == 2

\* ------------------------------------------------------------ generic helpers
Max(a, b) == IF a >= b THEN a ELSE b
Min(a, b) == IF a <= b THEN a ELSE b
Abs(a) == IF a < 0 THEN 0 - a ELSE a

RECURSIVE Pow2(_)
Pow2(n) == IF n <= 0 THEN 1 ELSE 2 * Pow2(n - 1)

Zeros(n) == [i \in 1..n |-> 0]

\* floor(log2(a)) for a >= 1
RECURSIVE Log2(_)
Log2(a) == IF a <= 1 THEN 0 ELSE 1 + Log2(a \div 2)

\* ------------------------------------------------------------ struct.pack / unpack
\* The format characters the schema uses and their sizes (_type_size).
type_size(t) ==
    LET sizes == [h |-> 2, f |-> 4, i |-> 4, s |-> 1, b |-> 1]
        size == sizes[t.char]
    IN  IF t.number > 0 THEN size * t.number ELSE size

T_b == [char |-> "b", number |-> 0]
T_h == [char |-> "h", number |-> 0]
T_i == [char |-> "i", number |-> 0]
T_f == [char |-> "f", number |-> 0]
T_s(n) == [char |-> "s", number |-> n]

\* struct.pack('>b' | '>h', v) raises struct.error outside the signed range;
\* 'i' values of the model are always inside it (the model's integers are 32 bit).
CanPack(t, v) ==
    CASE t.char = "b" -> v >= -128 /\ v <= 127
      [] t.char = "h" -> v >= -32768 /\ v <= 32767
      [] OTHER -> TRUE

\* two's complement of v on 8 * n bytes, n <= 2
PackSmall(n, v) ==
    LET u == IF v >= 0 THEN v ELSE v + Pow2(8 * n)
    IN  IF n = 1 THEN <<u>> ELSE <<u \div 256, u % 256>>

PackI(v) ==
    LET neg == v < 0
        u == IF neg THEN (v + 2147483647) + 1 ELSE v
    IN  << (IF neg THEN 128 ELSE 0) + (u \div 16777216), (u \div 65536) % 256,
           (u \div 256) % 256, u % 256 >>

\* IEEE-754 binary32 of the integer v, round to nearest, ties to even.
PackF(v) ==
    IF v = 0 THEN <<0, 0, 0, 0>>
    ELSE LET sign == IF v < 0 THEN 1 ELSE 0
             a == Abs(v)
             e0 == Log2(a)
             shift == e0 - 23
             q0 == IF shift <= 0 THEN a * Pow2(0 - shift) ELSE a \div Pow2(shift)
             r == IF shift <= 0 THEN 0 ELSE a % Pow2(shift)
             half == IF shift <= 0 THEN 1 ELSE Pow2(shift - 1)
             up == shift > 0 /\ (r > half \/ (r = half /\ q0 % 2 = 1))
             q1 == IF up THEN q0 + 1 ELSE q0
             carry == q1 = 16777216
             e == IF carry THEN e0 + 1 ELSE e0
             m == (IF carry THEN 8388608 ELSE q1) - 8388608
             E == e + 127
         IN  << sign * 128 + E \div 2, (E % 2) * 128 + m \div 65536,
                (m \div 256) % 256, m % 256 >>

\* bytes(name, 'utf-8') of one character
Utf8Char(c) ==
    CASE c = "a" -> <<97>>
      [] c = "b" -> <<98>>
      [] c = "." -> <<46>>
      [] c = "/" -> <<47>>
      [] c = "U+00E9" -> <<195, 169>>     \* e with acute accent, two bytes in UTF-8
      [] OTHER -> <<63>>

RECURSIVE Utf8(_)
Utf8(s) == IF s = <<>> THEN <<>> ELSE Utf8Char(Head(s)) \o Utf8(Tail(s))

\* struct.pack('>Ns', bs): exactly N bytes, bs truncated or zero padded.
PackS(n, bs) == [i \in 1..n |-> IF i <= Len(bs) THEN bs[i] ELSE 0]

Pack(t, v) ==
    CASE t.char = "b" -> PackSmall(1, v)
      [] t.char = "h" -> PackSmall(2, v)
      [] t.char = "i" -> PackI(v)
      [] t.char = "f" -> PackF(v)
      [] t.char = "s" -> PackS(t.number, v)

UnpackSmall(bs) ==
    LET n == Len(bs)
        u == IF n = 1 THEN bs[1] ELSE bs[1] * 256 + bs[2]
    IN  IF u >= Pow2(8 * n - 1) THEN u - Pow2(8 * n) ELSE u

UnpackI(bs) ==
    LET low == (bs[1] % 128) * 16777216 + bs[2] * 65536 + bs[3] * 256 + bs[4]
    IN  IF bs[1] >= 128 THEN (low - 2147483647) - 1 ELSE low

\* The value of a binary32 bit pattern: the integer it denotes, or the tagged
\* pattern when it denotes no integer of the model (fraction, -0.0, inf, nan,
\* magnitude of 2^31 or more).
UnpackF(bs) ==
    LET sign == bs[1] \div 128
        E == (bs[1] % 128) * 2 + bs[2] \div 128
        m == (bs[2] % 128) * 65536 + bs[3] * 256 + bs[4]
        e == E - 127
        M == 8388608 + m
        tagged == <<"f32", bs[1], bs[2], bs[3], bs[4]>>
        mag == IF e <= 23 THEN M \div Pow2(23 - e) ELSE M * Pow2(e - 23)
    IN  IF E = 0 /\ m = 0 THEN (IF sign = 0 THEN 0 ELSE tagged)
        ELSE IF E = 0 \/ E = 255 \/ e < 0 \/ e > 30 THEN tagged
        ELSE IF e <= 23 /\ M % Pow2(23 - e) # 0 THEN tagged
        ELSE IF sign = 1 THEN 0 - mag ELSE mag

\* struct.unpack('>' + t, bs)[0]; struct.error unless len(bs) is the size of t.
CanUnpack(t, bs) == Len(bs) = type_size(t)

Unpack(t, bs) ==
    CASE t.char \in {"b", "h"} -> UnpackSmall(bs)
      [] t.char = "i" -> UnpackI(bs)
      [] t.char = "f" -> UnpackF(bs)
      [] t.char = "s" -> bs

\* ------------------------------------------------------------ os.path
\* index of the last occurrence of c in s, 0 when there is none
LastIndex(s, c) ==
    LET hits == {i \in 1..Len(s) : s[i] = c}
    IN  IF hits = {} THEN 0 ELSE CHOOSE i \in hits : \A j \in hits : j <= i

\* os.path.basename: what follows the last separator
basename(p) == SubSeq(p, LastIndex(p, "/") + 1, Len(p))

\* os.path.dirname: what precedes the last separator, without trailing
\* separators unless it is all separators
RECURSIVE StripSeps(_)
StripSeps(p) ==
    IF p # <<>> /\ p[Len(p)] = "/" THEN StripSeps(SubSeq(p, 1, Len(p) - 1)) ELSE p

dirname(p) ==
    LET head == SubSeq(p, 1, LastIndex(p, "/"))
    IN  IF head # <<>> /\ \E i \in 1..Len(head) : head[i] # "/"
        THEN StripSeps(head) ELSE head

\* os.path.splitext(p)[0]: cut at the last dot of the last component, unless
\* only dots precede it in that component
splitext_root(p) ==
    LET sep == LastIndex(p, "/")
        dot == LastIndex(p, ".")
    IN  IF dot > sep /\ \E i \in (sep + 1)..(dot - 1) : p[i] # "."
        THEN SubSeq(p, 1, dot - 1) ELSE p

\* The file a path names: runs of separators collapse to one.  (The paths
\* of the model hold no "." or ".." component.)
RECURSIVE NormPath(_)
NormPath(p) ==
    IF Len(p) < 2 THEN p
    ELSE IF p[1] = "/" /\ p[2] = "/" THEN NormPath(Tail(p))
    ELSE <<p[1]>> \o NormPath(Tail(p))

\* The name zipfile gives an entry written from a path: the normalised path
\* without leading separators.
RECURSIVE StripLeadingSeps(_)
StripLeadingSeps(p) ==
    IF p # <<>> /\ p[1] = "/" THEN StripLeadingSeps(Tail(p)) ELSE p

ArcName(p) == StripLeadingSeps(NormPath(p))

\* ------------------------------------------------------------ field schema
\* one row of a field table; HeaderTuple.size is type_size(type)
Field(t, offset) == [type |-> t, offset |-> offset]

header1_dict ==
    [ MAGIC |-> Field(T_s(4), 0),
      VERSION_OFFSET |-> Field(T_h, 4),
      TYPE |-> Field(T_b, 6),
      TOP |-> Field(T_h, 8),
      LEFT |-> Field(T_h, 10),
      BOTTOM |-> Field(T_h, 12),
      RIGHT |-> Field(T_h, 14),
      N_COORDINATES |-> Field(T_h, 16),
      X1 |-> Field(T_f, 18),
      Y1 |-> Field(T_f, 22),
      X2 |-> Field(T_f, 26),
      Y2 |-> Field(T_f, 30),
      XD |-> Field(T_f, 18),
      YD |-> Field(T_f, 22),
      WIDTHD |-> Field(T_f, 26),
      HEIGHTD |-> Field(T_f, 30),
      STROKE_WIDTH |-> Field(T_h, 34),
      SHAPE_ROI_SIZE |-> Field(T_i, 36),
      STROKE_COLOR |-> Field(T_i, 40),
      FILL_COLOR |-> Field(T_i, 44),
      SUBTYPE |-> Field(T_h, 48),
      OPTIONS |-> Field(T_h, 50),
      ARROW_STYLE |-> Field(T_b, 52),
      FLOAT_PARAM |-> Field(T_b, 52),
      POINT_TYPE |-> Field(T_b, 52),
      ARROW_HEAD_SIZE |-> Field(T_b, 53),
      ROUNDED_RECT_ARC_SIZE |-> Field(T_h, 54),
      POSITION |-> Field(T_i, 56),
      HEADER2_OFFSET |-> Field(T_i, 60),
      COORDINATES |-> Field(T_i, 64) ]

header2_dict ==
    [ C_POSITION |-> Field(T_i, 4),
      Z_POSITION |-> Field(T_i, 8),
      T_POSITION |-> Field(T_i, 12),
      NAME_OFFSET |-> Field(T_i, 16),
      NAME_LENGTH |-> Field(T_i, 20),
      OVERLAY_LABEL_COLOR |-> Field(T_i, 24),
      OVERLAY_FONT_SIZE |-> Field(T_h, 28),
      AVAILABLE_BYTE1 |-> Field(T_b, 30),
      IMAGE_OPACITY |-> Field(T_b, 31),
      IMAGE_SIZE |-> Field(T_i, 32),
      FLOAT_STROKE_WIDTH |-> Field(T_f, 36),
      ROI_PROPS_OFFSET |-> Field(T_i, 40),
      ROI_PROPS_LENGTH |-> Field(T_i, 44) ]

header1_size == 64
header2_size == 64

MagicBytes == <<73, 111, 117, 116>>      \* b'Iout'
Version == 225
PadSize == 128

roi_types_rev ==
    [ polygon |-> 0, rect |-> 1, oval |-> 2, line |-> 3, freeline |-> 4,
      polyline |-> 5, no_roi |-> 6, freehand |-> 7, traced |-> 8, angle |-> 9,
      point |-> 10 ]

roi_types ==
    [ n \in 0..10 |->
        <<"polygon", "rect", "oval", "line", "freeline", "polyline", "no_roi",
          "freehand", "traces", "angle", "point">>[n + 1] ]

\* the kinds ROIEncoder has a _write_roi_<kind> method for that only raises
UnsupportedKinds ==
    {"polygon", "oval", "line", "freeline", "polyline", "no_roi", "freehand",
     "traced", "angle", "point"}

\* the names ROIDecoder has a _read_roi_<name> method for
ReaderNames == {"rect"} \cup UnsupportedKinds

\* ------------------------------------------------------------ ROI objects
\* One record shape for both classes: ROIRect uses arc, ROIShape the
\* coordinate lists.
ROIRect(top, left, bottom, right, arc, name, position) ==
    [ type |-> "rect", top |-> top, left |-> left, bottom |-> bottom,
      right |-> right, name |-> name, position |-> position, arc |-> arc,
      x_coords |-> <<>>, y_coords |-> <<>> ]

ROIShape(x_coords, y_coords, name, position, top, left, bottom, right) ==
    [ type |-> "shape", top |-> top, left |-> left, bottom |-> bottom,
      right |-> right, name |-> name, position |-> position, arc |-> 0,
      x_coords |-> x_coords, y_coords |-> y_coords ]

\* no ROI object (a call that raised returns nothing)
NoRoi == [ROIRect(0, 0, 0, 0, 0, <<>>, 0) EXCEPT !.type = "none"]

\* ROIShape.get_shapeArray: zip() stops at the shorter list
RECURSIVE Triples(_, _)
Triples(xs, ys) ==
    IF xs = <<>> \/ ys = <<>> THEN <<>>
    ELSE <<Head(ys), Head(xs), 1>> \o Triples(Tail(xs), Tail(ys))

\* get_shapeArray as it would be without shapeArray.pop()
get_shapeArray_no_pop(roi) ==
    <<0>> \o Triples(roi.x_coords, roi.y_coords) \o <<4>>

get_shapeArray(roi) ==
    LET emitted == <<0>> \o Triples(roi.x_coords, roi.y_coords)
        popped == SubSeq(emitted, 1, Len(emitted) - 1)
    IN  popped \o <<4>>

\* the elements of s whose 0-based index is k modulo 3, in order
RECURSIVE EveryThird(_, _)
EveryThird(s, k) ==
    IF Len(s) <= k THEN <<>>
    ELSE <<s[k + 1]>> \o EveryThird(SubSeq(s, 4, Len(s)), k)

\* get_coords_from_shapeArray with the two remainders exchanged
get_coords_exchanged(shapeArray) ==
    [ x_coords |-> EveryThird(shapeArray, 1), y_coords |-> EveryThird(shapeArray, 2) ]

get_coords_from_shapeArray(shapeArray) ==
    [ x_coords |-> EveryThird(shapeArray, 2), y_coords |-> EveryThird(shapeArray, 1) ]


\* ------------------------------------------------------------ encoder
\* f_obj.seek(off); f_obj.write(bs) on a file opened 'wb': a gap is zero filled
ApplyWrite(buf, off, bs) ==
    [ i \in 1..Max(Len(buf), off + Len(bs)) |->
        IF i > off /\ i <= off + Len(bs) THEN bs[i - off]
        ELSE IF i <= Len(buf) THEN buf[i] ELSE 0 ]

\* One _write_var call: where, which format, which value.
WriteOp(off, t, v) == [off |-> off, type |-> t, v |-> v]

\* The field a header name denotes and the offset it lies at, as
\* _write_header and _get_header resolve it: a header-1 field at its own
\* offset, a header-2 field at its offset from header2_offset.
ResolveIn(h1, h2, header_name, header2_offset) ==
    IF header_name \in DOMAIN h1
    THEN [type |-> h1[header_name].type, offset |-> h1[header_name].offset]
    ELSE [type |-> h2[header_name].type,
          offset |-> h2[header_name].offset + header2_offset]

Resolve(header_name, header2_offset) ==
    ResolveIn(header1_dict, header2_dict, header_name, header2_offset)

WriteField(f, value) == WriteOp(f.offset, f.type, value)

\* _write_header
write_header(header2_offset, header_name, value) ==
    WriteField(Resolve(header_name, header2_offset), value)

\* _write_name: offset and length (in characters) into header 2, then the
\* name packed as a len(name) byte string
write_name(roi, header2_offset) ==
    << write_header(header2_offset, "NAME_OFFSET", header2_size + header2_offset),
       write_header(header2_offset, "NAME_LENGTH", Len(roi.name)),
       WriteOp(header2_size + header2_offset, T_s(Len(roi.name)), Utf8(roi.name)) >>

\* _write_roi_rect as it would be without its POSITION line
write_roi_rect_no_position(roi, header2_offset) ==
    << write_header(header2_offset, "TYPE", roi_types_rev[roi.type]),
       write_header(header2_offset, "TOP", roi.top),
       write_header(header2_offset, "LEFT", roi.left),
       write_header(header2_offset, "BOTTOM", roi.bottom),
       write_header(header2_offset, "RIGHT", roi.right),
       write_header(header2_offset, "HEADER2_OFFSET", header1_size) >>
    \o write_name(roi, header2_offset)

\* _write_roi_rect: the _write_var calls it makes, in order
write_roi_rect(roi, header2_offset) ==
    << write_header(header2_offset, "TYPE", roi_types_rev[roi.type]),
       write_header(header2_offset, "TOP", roi.top),
       write_header(header2_offset, "LEFT", roi.left),
       write_header(header2_offset, "BOTTOM", roi.bottom),
       write_header(header2_offset, "RIGHT", roi.right),
       write_header(header2_offset, "POSITION", roi.position),
       write_header(header2_offset, "HEADER2_OFFSET", header1_size) >>
    \o write_name(roi, header2_offset)

\* _write_roi_shape as it would be without its POSITION line
ShapeOps_no_position(roi, header2_offset, shapeArray) ==
    << write_header(header2_offset, "TYPE", roi_types_rev["rect"]),
       write_header(header2_offset, "TOP", roi.top),
       write_header(header2_offset, "LEFT", roi.left),
       write_header(header2_offset, "BOTTOM", roi.bottom),
       write_header(header2_offset, "RIGHT", roi.right),
       write_header(header2_offset, "SHAPE_ROI_SIZE", Len(shapeArray)) >>
    \o [ k \in 1..Len(shapeArray) |->
           WriteOp(header2_offset + 4 * (k - 1), T_f, shapeArray[k]) ]
    \o << write_header(header2_offset + 4 * Len(shapeArray), "HEADER2_OFFSET",
                       header2_offset + 4 * Len(shapeArray)) >>
    \o write_name(roi, header2_offset + 4 * Len(shapeArray))

\* _write_roi_shape, for the array get_shapeArray returned
ShapeOps(roi, header2_offset, shapeArray) ==
    << write_header(header2_offset, "TYPE", roi_types_rev["rect"]),
       write_header(header2_offset, "TOP", roi.top),
       write_header(header2_offset, "LEFT", roi.left),
       write_header(header2_offset, "BOTTOM", roi.bottom),
       write_header(header2_offset, "RIGHT", roi.right),
       write_header(header2_offset, "POSITION", roi.position),
       write_header(header2_offset, "SHAPE_ROI_SIZE", Len(shapeArray)) >>
    \o [ k \in 1..Len(shapeArray) |->
           WriteOp(header2_offset + 4 * (k - 1), T_f, shapeArray[k]) ]
    \o << write_header(header2_offset + 4 * Len(shapeArray), "HEADER2_OFFSET",
                       header2_offset + 4 * Len(shapeArray)) >>
    \o write_name(roi, header2_offset + 4 * Len(shapeArray))

write_roi_shape(roi, header2_offset) == ShapeOps(roi, header2_offset, get_shapeArray(roi))

\* self.header2_offset when the roi writer has returned
header2_offset_after(roi, header2_offset) ==
    IF roi.type = "shape" THEN header2_offset + 4 * Len(get_shapeArray(roi))
    ELSE header2_offset

\* _write_var calls in order until struct.pack raises: the file after the
\* calls that succeeded (each seek flushes the write before it), and the file
\* before the last of them
RECURSIVE RunOps(_, _, _)
RunOps(prev, buf, ops) ==
    IF ops = <<>> THEN [buf |-> buf, prev |-> prev, err |-> "none"]
    ELSE IF ~CanPack(Head(ops).type, Head(ops).v)
    THEN [buf |-> buf, prev |-> prev, err |-> "struct.error"]
    ELSE RunOps(buf, ApplyWrite(buf, Head(ops).off, Pack(Head(ops).type, Head(ops).v)),
                Tail(ops))

\* the _write_var calls of write(): magic and version, then those of the roi
\* writer (a writer of an unsupported kind raises before it writes)
write_ops(roi) ==
    << write_header(header1_size, "MAGIC", MagicBytes),
       write_header(header1_size, "VERSION_OFFSET", Version) >>
    \o ( IF roi.type = "rect" THEN write_roi_rect(roi, header1_size)
         ELSE IF roi.type = "shape" THEN write_roi_shape(roi, header1_size)
         ELSE <<>> )

\* ROIEncoder.write after open(path, 'wb') succeeded: the bytes of the file
\* when the call returns or raises, the error raised, header2_offset at
\* that point, and whether f_obj.close() was reached.  When the roi writer
\* raises without seeking, the VERSION_OFFSET write is still in the buffer of
\* the unclosed file object: `pending` is then the file without that write.
WriteOutcome(roi, run) ==
    IF roi.type \in UnsupportedKinds
    THEN [ buf |-> run.buf, pending |-> run.prev, err |-> "NotImplementedError",
           header2_offset |-> header1_size, closed |-> FALSE ]
    ELSE IF run.err # "none"
    THEN \* every pack that can raise precedes the header2_offset update
         [ buf |-> run.buf, pending |-> run.buf, err |-> run.err,
           header2_offset |-> header1_size, closed |-> FALSE ]
    ELSE [ buf |-> run.buf, pending |-> run.buf, err |-> "none",
           header2_offset |-> header2_offset_after(roi, header1_size),
           closed |-> TRUE ]

write_file(roi) == WriteOutcome(roi, RunOps(<<>>, Zeros(PadSize), write_ops(roi)))

\* ------------------------------------------------------------ decoder
\* data[a:b] of Python: negative indices count from the end, indices are
\* clipped to the length, an empty range is the empty string
SliceIndex(i, n) == IF i < 0 THEN Max(i + n, 0) ELSE Min(i, n)
Slice(data, a, b) == SubSeq(data, SliceIndex(a, Len(data)) + 1, SliceIndex(b, Len(data)))

\* _get_var: the bytes it unpacks
get_var_bytes(data, offset, var_size) == Slice(data, offset, offset + var_size)

\* _set_header for each name in turn, until struct.unpack raises
RECURSIVE set_headers(_, _, _)
SetUnpacked(data, header, names, f, bs) ==
    IF ~CanUnpack(f.type, bs) THEN [header |-> header, err |-> "struct.error"]
    ELSE set_headers(data, (Head(names) :> Unpack(f.type, bs)) @@ header, Tail(names))

SetResolved(data, header, names, f) ==
    SetUnpacked(data, header, names, f, get_var_bytes(data, f.offset, type_size(f.type)))

set_headers(data, header, names) ==
    IF names = <<>> THEN [header |-> header, err |-> "none"]
    ELSE SetResolved(data, header, names, Resolve(Head(names), header["HEADER2_OFFSET"]))

to_read_h1 ==
    << "VERSION_OFFSET", "TYPE", "SUBTYPE", "TOP", "LEFT", "BOTTOM", "RIGHT",
       "N_COORDINATES", "STROKE_WIDTH", "SHAPE_ROI_SIZE", "STROKE_COLOR",
       "FILL_COLOR", "SUBTYPE", "OPTIONS", "POSITION", "HEADER2_OFFSET" >>

to_read_h2 ==
    << "C_POSITION", "Z_POSITION", "T_POSITION", "NAME_OFFSET", "NAME_LENGTH",
       "OVERLAY_LABEL_COLOR", "OVERLAY_FONT_SIZE", "AVAILABLE_BYTE1",
       "IMAGE_OPACITY", "IMAGE_SIZE", "FLOAT_STROKE_WIDTH", "ROI_PROPS_OFFSET",
       "ROI_PROPS_LENGTH" >>

set_zero == {"OVERLAY_LABEL_COLOR", "OVERLAY_FONT_SIZE", "IMAGE_OPACITY"}

EmptyHeader == [h \in {} |-> 0]

ZeroSome(got) ==
    IF got.err # "none" THEN got
    ELSE [ header |-> [h \in DOMAIN got.header |->
                         IF h \in set_zero THEN 0 ELSE got.header[h]],
           err |-> "none" ]

\* read_header comparing only the first three bytes of the magic
CheckMagic_three_bytes(data, f, magic) ==
    IF ~CanUnpack(f.type, magic) THEN [header |-> EmptyHeader, err |-> "struct.error"]
    ELSE IF SubSeq(magic, 1, 3) # SubSeq(MagicBytes, 1, 3)
    THEN [header |-> EmptyHeader, err |-> "IOError"]
    ELSE ZeroSome(set_headers(data, EmptyHeader, to_read_h1 \o to_read_h2))

CheckMagic(data, f, magic) ==
    IF ~CanUnpack(f.type, magic) THEN [header |-> EmptyHeader, err |-> "struct.error"]
    ELSE IF magic # MagicBytes THEN [header |-> EmptyHeader, err |-> "IOError"]
    ELSE ZeroSome(set_headers(data, EmptyHeader, to_read_h1 \o to_read_h2))

MagicField(data, f) == CheckMagic(data, f, get_var_bytes(data, f.offset, type_size(f.type)))

\* read_header: the header dictionary when it returns or raises, and the error
read_header(data) == MagicField(data, Resolve("MAGIC", 0))

\* _read_roi_rect
RectOf(name, got) ==
    IF got.err # "none" THEN [roi |-> NoRoi, header |-> got.header, err |-> got.err]
    ELSE [ roi |-> ROIRect(got.header["TOP"], got.header["LEFT"], got.header["BOTTOM"],
                           got.header["RIGHT"], got.header["ROUNDED_RECT_ARC_SIZE"],
                           name, got.header["POSITION"]),
           header |-> got.header, err |-> "none" ]

read_roi_rect(data, name, header) ==
    RectOf(name, set_headers(data, header,
               <<"ROUNDED_RECT_ARC_SIZE", "TOP", "LEFT", "BOTTOM", "RIGHT", "POSITION">>))

\* the loop of _read_roi_shape: n floats from base, until struct.unpack raises
RECURSIVE read_floats(_, _, _, _)
AppendFloat(data, base, n, shapeArray, bs) ==
    IF ~CanUnpack(T_f, bs) THEN [shapeArray |-> shapeArray, err |-> "struct.error"]
    ELSE read_floats(data, base + 4, n - 1, Append(shapeArray, Unpack(T_f, bs)))

read_floats(data, base, n, shapeArray) ==
    IF n <= 0 THEN [shapeArray |-> shapeArray, err |-> "none"]
    ELSE AppendFloat(data, base, n, shapeArray, get_var_bytes(data, base, 4))

\* _read_roi_shape
ShapeFrom(name, header, coords) ==
    ROIShape(coords.x_coords, coords.y_coords, name, header["POSITION"],
             header["TOP"], header["LEFT"], header["BOTTOM"], header["RIGHT"])

ShapeOf(name, header, got) ==
    IF got.err # "none" THEN [roi |-> NoRoi, header |-> header, err |-> got.err]
    ELSE [ roi |-> ShapeFrom(name, header, get_coords_from_shapeArray(got.shapeArray)),
           header |-> header, err |-> "none" ]

read_roi_shape(data, name, header) ==
    IF header["TYPE"] # roi_types_rev["rect"]
    THEN [roi |-> NoRoi, header |-> header, err |-> "Exception"]
    ELSE ShapeOf(name, header, read_floats(data, header1_size, header["SHAPE_ROI_SIZE"], <<>>))

\* read() looking the type tag up before it looks at SHAPE_ROI_SIZE
Dispatch_tag_first(data, name, header) ==
    IF header["TYPE"] \notin DOMAIN roi_types
    THEN [roi |-> NoRoi, header |-> header, err |-> "KeyError"]
    ELSE IF roi_types[header["TYPE"]] # "rect"
    THEN [roi |-> NoRoi, header |-> header, err |-> "NotImplementedError"]
    ELSE IF header["SHAPE_ROI_SIZE"] > 0 THEN read_roi_shape(data, name, header)
    ELSE read_roi_rect(data, name, header)

\* read() without the except clause around getattr
Dispatch_uncaught(data, name, header) ==
    IF header["SHAPE_ROI_SIZE"] > 0 THEN read_roi_shape(data, name, header)
    ELSE IF header["TYPE"] \notin DOMAIN roi_types
    THEN [roi |-> NoRoi, header |-> header, err |-> "KeyError"]
    ELSE IF roi_types[header["TYPE"]] \notin ReaderNames
    THEN [roi |-> NoRoi, header |-> header, err |-> "AttributeError"]
    ELSE IF roi_types[header["TYPE"]] = "rect" THEN read_roi_rect(data, name, header)
    ELSE [roi |-> NoRoi, header |-> header, err |-> "NotImplementedError"]

\* the dispatch of read() on the kind, after read_header returned
Dispatch(data, name, header) ==
    IF header["SHAPE_ROI_SIZE"] > 0 THEN read_roi_shape(data, name, header)
    ELSE IF header["TYPE"] \notin DOMAIN roi_types
    THEN [roi |-> NoRoi, header |-> header, err |-> "KeyError"]
    ELSE IF roi_types[header["TYPE"]] \notin ReaderNames
    THEN [roi |-> NoRoi, header |-> header, err |-> "NotImplementedError"]
    ELSE IF roi_types[header["TYPE"]] = "rect" THEN read_roi_rect(data, name, header)
    ELSE [roi |-> NoRoi, header |-> header, err |-> "NotImplementedError"]

WithComposite(got, is_composite) ==
    [roi |-> got.roi, header |-> got.header, err |-> got.err, is_composite |-> is_composite]

AfterHeader(data, name, was_composite, hd) ==
    IF hd.err # "none" THEN WithComposite([roi |-> NoRoi] @@ hd, was_composite)
    ELSE WithComposite(Dispatch(data, name, hd.header), hd.header["SHAPE_ROI_SIZE"] > 0)

\* ROIDecoder.read once self.data and self.name are set: the ROI returned or
\* the error raised, and the instance fields header and is_composite afterwards
read_data(data, name, was_composite) ==
    AfterHeader(data, name, was_composite, read_header(data))

\* ------------------------------------------------------------ inputs
Ext == <<".", "r", "o", "i">>
Dir == <<"d">>
RoiPath(dir, stem) == dir \o <<"/">> \o stem \o Ext

\* the path single ROI files are written to and read from, and a path in a
\* directory that does not exist
FilePath == RoiPath(Dir, <<"a">>)
BackPath == RoiPath(Dir, <<"b">>)
MissingDirPath == RoiPath(<<"x">>, <<"a">>)

Names == { <<"a">>, <<"b", "U+00E9">> }

RectBounds == { <<10, 5, 50, 40>>, <<-32768, -1, 32767, 256>> }
Positions == { 1, 2147483647, -2 }

RectRois ==
    { ROIRect(b[1], b[2], b[3], b[4], 0, n, p) : b \in RectBounds, n \in Names, p \in Positions }
    \cup { ROIRect(10, 5, 50, 40, 3, <<"a">>, 0),         \* a rounded rectangle
           ROIRect(10, 5, 32768, 40, 0, <<"a">>, 1) }     \* bottom beyond int16

\* coordinate lists: small pixel coordinates, and values that coincide with
\* the sentinels or are not representable in single precision
XBase == { <<1, 2, 3, 4>>, <<16777217, 0, -3, 1>> }
YBase == [ xs \in XBase |-> IF xs[1] = 1 THEN <<4, 5, 6, 7>> ELSE <<4, 1, 33554431, 0>> ]
Prefix(s, n) == SubSeq(s, 1, Min(n, Len(s)))

ShapeRois ==
    { ROIShape(Prefix(xs, k), Prefix(YBase[xs], k), n, 1, 1, 2, 3, 4) :
        xs \in XBase, k \in 0..MaxPairs, n \in Names }

UnsupportedRois ==
    { [ROIRect(10, 5, 50, 40, 0, <<"a">>, 1) EXCEPT !.type = k] : k \in UnsupportedKinds }

Rois == RectRois \cup ShapeRois \cup UnsupportedRois

\* write_file of every ROI the model draws, computed once
EncodedRois == [r \in Rois |-> write_file(r)]
EncodedIn(table, roi) == IF roi \in DOMAIN table THEN table[roi] ELSE write_file(roi)
Encoded(roi) == EncodedIn(EncodedRois, roi)

\* A buffer that did not come from the encoder: header-1 fields of choice, a
\* float array after header 1, zeros elsewhere, cut to len bytes.
Craft(c) ==
    LET full == RunOps(<<>>, Zeros(Max(c.len, header1_size + 4 * Len(c.floats))),
                  << WriteOp(0, T_s(4), c.magic),
                     WriteOp(4, T_h, c.version),
                     WriteOp(6, T_b, c.type),
                     WriteOp(8, T_h, 1), WriteOp(10, T_h, 2),
                     WriteOp(12, T_h, 3), WriteOp(14, T_h, 4),
                     WriteOp(36, T_i, c.size),
                     WriteOp(56, T_i, 7),
                     WriteOp(60, T_i, c.h2off) >>
                  \o [ k \in 1..Len(c.floats) |->
                         WriteOp(header1_size + 4 * (k - 1), T_f, c.floats[k]) ]).buf
    IN  SubSeq(full, 1, c.len)

CraftParam(magic, version, type, size, h2off, floats, len) ==
    [ magic |-> magic, version |-> version, type |-> type, size |-> size,
      h2off |-> h2off, floats |-> floats, len |-> len ]

BadMagics == { <<73, 111, 117, 84>>, <<0, 0, 0, 0>> }

CraftParams ==
    \* well-formed length, every type tag, with and without a shape payload
    { CraftParam(MagicBytes, Version, t, n, 80, <<0, 5, 6, 4>>, 144) :
        t \in 0..11, n \in {-1, 0, 4} }
    \* magic corrupted
    \cup { CraftParam(m, Version, tn[1], tn[2], 80, <<0, 5, 6, 4>>, 144) :
             m \in BadMagics, tn \in { <<1, 0>>, <<1, 4>>, <<2, 4>> } }
    \* shorter than the magic
    \cup { CraftParam(MagicBytes, Version, 1, 0, 80, <<>>, 2) }
    \* header 2 or the float array not inside the buffer
    \cup { CraftParam(MagicBytes, Version, 1, 0, 80, <<>>, 64),
           CraftParam(MagicBytes, Version, 2, 4, 80, <<>>, 64),
           CraftParam(MagicBytes, Version, 1, 4, 130, <<0, 5, 6, 4>>, 144),
           CraftParam(MagicBytes, Version, 1, 7, 16, <<0, 5, 6, 4>>, 80),
           CraftParam(MagicBytes, Version, 1, 4, -60, <<0, 5, 6, 4>>, 144) }
    \* another version, a float count that is not 1 modulo 3, other flags
    \cup { CraftParam(MagicBytes, 226, 1, 0, 80, <<>>, 144),
           CraftParam(MagicBytes, Version, 1, 2, 80, <<0, 5>>, 144),
           CraftParam(MagicBytes, Version, 1, 7, 92, <<0, 5, 6, 2, 7, 8, 4>>, 156) }

\* the ROIs handed to write_zip: a rectangle, a shape that has a coordinate
\* beyond 2^24, and one of an unsupported kind
ZipRois ==
    { ROIRect(10, 5, 50, 40, 0, <<"a">>, 1),
      ROIShape(<<16777217>>, <<4>>, <<"b", "U+00E9">>, 1, 1, 2, 3, 4),
      [ROIRect(10, 5, 50, 40, 0, <<"a">>, 1) EXCEPT !.type = "oval"] }

RECURSIVE SeqsUpTo(_, _)
SeqsUpTo(S, n) ==
    IF n = 0 THEN {<<>>}
    ELSE SeqsUpTo(S, n - 1) \cup { Append(q, x) : q \in { t \in SeqsUpTo(S, n - 1) : Len(t) = n - 1 }, x \in S }

RoiLists == SeqsUpTo(ZipRois, MaxRois)

ArcPath == <<"d", "/", "s", "_", "r", "o", "i", "s", ".", "z", "i", "p">>

\* the ROIs ROIEncoder.write encodes without raising
EncodableRois == { r \in Rois : EncodedRois[r].err = "none" }

CraftedBuffers == [c \in CraftParams |-> Craft(c)]

\* what ROIDecoder.read is called with: a path string, or an object that is
\* neither a str nor a ZipExtFile
ReadArgs ==
    { [kind |-> "str", path |-> p] : p \in {FilePath, MissingDirPath} }
    \cup { [kind |-> "other", path |-> <<>>] }

\* ------------------------------------------------------------ state
VARIABLES
    fs,       \* the files on disk: path -> bytes
    dirs,     \* the directories that exist
    zips,     \* the archives on disk: path -> [entries, closed]
    zopen,    \* the ZipFile objects opened and not closed
    enc,      \* the ROIEncoder instance: header2_offset, state of f_obj
    dec,      \* the ROIDecoder instance: data, name, header, is_composite
    ret,      \* the last call: operation, path, error raised, ROI or list of
              \* ROIs returned (for write_zip: the list it was given), and
              \* for write the type of the ROI it was given
    origin    \* history: path -> the ROI(s) the last successful write put there

vars == <<fs, dirs, zips, zopen, enc, dec, ret, origin>>

Without(f, p) == [q \in DOMAIN f \ {p} |-> f[q]]
EmptyMap == [q \in {} |-> 0]

Ret(op, err, path, roi, rois) ==
    [op |-> op, err |-> err, path |-> path, roi |-> roi, rois |-> rois, kind |-> "none"]

Init ==
    /\ fs = EmptyMap
    /\ dirs = {Dir}
    /\ zips = EmptyMap
    /\ zopen = {}
    /\ enc = [header2_offset |-> 0, f_obj |-> "none"]
    /\ dec = [ has_data |-> FALSE, data |-> <<>>, name |-> <<>>,
               header |-> EmptyHeader, is_composite |-> FALSE ]
    /\ ret = Ret("init", "none", <<>>, NoRoi, <<>>)
    /\ origin = EmptyMap

\* ------------------------------------------------------------ ROIEncoder.write
\* write(path, roi_obj) when the encoding ends as e and `visible` is the
\* content of the file on disk when the call has ended
WriteEffect(p, roi_obj, e, visible) ==
    IF dirname(p) \notin dirs
    THEN /\ enc' = [enc EXCEPT !.header2_offset = header1_size]
         /\ ret' = [Ret("write", "FileNotFoundError", p, NoRoi, <<>>) EXCEPT !.kind = roi_obj.type]
         /\ UNCHANGED <<fs, origin>>
    ELSE /\ fs' = (p :> visible) @@ fs
         /\ origin' = IF e.err = "none" THEN (p :> <<roi_obj>>) @@ origin
                      ELSE Without(origin, p)
         /\ enc' = [ header2_offset |-> e.header2_offset,
                     f_obj |-> IF e.closed THEN "closed" ELSE "open" ]
         /\ ret' = [Ret("write", e.err, p, NoRoi, <<>>) EXCEPT !.kind = roi_obj.type]

WriteEncoded(p, roi_obj, e) ==
    \E visible \in {e.buf, e.pending} : WriteEffect(p, roi_obj, e, visible)

Write(path, roi_obj) ==
    /\ WriteEncoded(NormPath(path), roi_obj, Encoded(roi_obj))
    /\ UNCHANGED <<dirs, zips, zopen, dec>>

\* ------------------------------------------------------------ ROIDecoder.read
ReadResult(data, name, r) ==
    [ dec |-> [ has_data |-> TRUE, data |-> data, name |-> name,
                header |-> r.header, is_composite |-> r.is_composite ],
      err |-> r.err, roi |-> r.roi ]

ReadDataFrom(d, data, name) == ReadResult(data, name, read_data(data, name, d.is_composite))
ReadData(data, name) == ReadDataFrom(dec, data, name)

\* read(roi_path) for a str path or an object of another type: the decoder
\* afterwards, the error raised, the ROI returned
read(arg) ==
    IF arg.kind = "str"
    THEN IF NormPath(arg.path) \notin DOMAIN fs
         THEN [dec |-> dec, err |-> "FileNotFoundError", roi |-> NoRoi]
         ELSE ReadData(fs[NormPath(arg.path)], splitext_root(basename(arg.path)))
    ELSE IF ~dec.has_data
    THEN \* read_header reaches self.data, which was never set
         [dec |-> [dec EXCEPT !.header = EmptyHeader], err |-> "AttributeError",
          roi |-> NoRoi]
    ELSE ReadData(dec.data, dec.name)

ReadEffect(arg, r) ==
    /\ dec' = r.dec
    /\ ret' = Ret("read_" \o arg.kind, r.err, NormPath(arg.path), r.roi, <<>>)

Read(arg) ==
    /\ ReadEffect(arg, read(arg))
    /\ UNCHANGED <<fs, dirs, zips, zopen, enc, origin>>

\* The ROI the last read returned is encoded again, to another file.
WriteBack ==
    /\ ret.op \in {"read_str", "read_other"}
    /\ ret.err = "none"
    /\ Write(BackPath, ret.roi)

\* ------------------------------------------------------------ ROIEncoder.write_zip
\* "{}//RoiSet_{}".format(dir_name, arc_name[:-4])
temp_dir_name(arc_path) ==
    dirname(arc_path) \o <<"/", "/", "R", "o", "i", "S", "e", "t", "_">>
    \o SubSeq(splitext_root(basename(arc_path)), 1,
              Len(splitext_root(basename(arc_path))) - 4)

\* "{}//{}.roi".format(temp_dir_name, roi.name)
file_path(temp, roi) == temp \o <<"/", "/">> \o roi.name \o Ext

\* The loop of write_zip: self.write(file_path, roi), then zf.write(file_path),
\* until a write raises.  st: the files, the entries of the archive, the
\* encoder and the error so far; `flushed` tells whether a write that raised
\* left its last buffered bytes on disk.
RECURSIVE zip_loop(_, _, _, _)
ZipOne(st, temp, rois, flushed, p, e) ==
    IF dirname(p) # NormPath(temp)
    THEN [ st EXCEPT !.err = "FileNotFoundError",
                     !.enc = [st.enc EXCEPT !.header2_offset = header1_size] ]
    ELSE IF e.err # "none"
    THEN [ fs |-> (p :> (IF flushed THEN e.buf ELSE e.pending)) @@ st.fs,
           entries |-> st.entries,
           enc |-> [header2_offset |-> e.header2_offset, f_obj |-> "open"],
           err |-> e.err ]
    ELSE zip_loop([ fs |-> (p :> e.buf) @@ st.fs,
                    entries |-> Append(st.entries, [name |-> ArcName(p), data |-> e.buf]),
                    enc |-> [header2_offset |-> e.header2_offset, f_obj |-> "closed"],
                    err |-> "none" ],
                  temp, Tail(rois), flushed)

zip_loop(st, temp, rois, flushed) ==
    IF rois = <<>> THEN st
    ELSE ZipOne(st, temp, rois, flushed, NormPath(file_path(temp, Head(rois))),
                Encoded(Head(rois)))

\* shutil.rmtree(temp): the files left when the directory is removed
rmtree(files, temp) ==
    [q \in {f \in DOMAIN files : dirname(f) # NormPath(temp)} |-> files[q]]

ZipEffect(arc, temp, rois, st) ==
    IF st.err # "none"
    THEN \* the loop raised: the directory stays, zf is not closed
         /\ fs' = st.fs
         /\ dirs' = dirs \cup {NormPath(temp)}
         /\ zips' = (arc :> [entries |-> st.entries, closed |-> FALSE]) @@ zips
         /\ zopen' = zopen \cup {[path |-> arc, mode |-> "w"]}
         /\ origin' = Without(origin, arc)
         /\ enc' = st.enc
         /\ ret' = Ret("write_zip", st.err, arc, NoRoi, rois)
    ELSE /\ fs' = rmtree(st.fs, temp)
         /\ dirs' = dirs \ {NormPath(temp)}
         /\ zips' = (arc :> [entries |-> st.entries, closed |-> TRUE]) @@ zips
         /\ zopen' = zopen
         /\ origin' = (arc :> rois) @@ origin
         /\ enc' = st.enc
         /\ ret' = Ret("write_zip", "none", arc, NoRoi, rois)

write_zip(arc_path, rois, flushed) ==
    IF NormPath(temp_dir_name(arc_path)) \in dirs
    THEN \* os.mkdir raises, nothing else has happened
         /\ ret' = Ret("write_zip", "FileExistsError", NormPath(arc_path), NoRoi, rois)
         /\ UNCHANGED <<fs, dirs, zips, zopen, origin, enc>>
    ELSE ZipEffect(NormPath(arc_path), temp_dir_name(arc_path), rois,
                   zip_loop([fs |-> fs, entries |-> <<>>, enc |-> enc, err |-> "none"],
                            temp_dir_name(arc_path), rois, flushed))

\* whether the bytes still buffered were flushed matters when a write raised
FlushChoices(rois) ==
    IF \E k \in 1..Len(rois) : Encoded(rois[k]).err # "none" THEN BOOLEAN ELSE {TRUE}

WriteZip(arc_path, rois) ==
    /\ \E flushed \in FlushChoices(rois) : write_zip(arc_path, rois, flushed)
    /\ UNCHANGED dec

\* ------------------------------------------------------------ ROIDecoder.read_zip
\* namelist() as it would be if the names came last entry first
namelist_reversed(entries) ==
    [k \in 1..Len(entries) |-> entries[Len(entries) + 1 - k].name]

\* zf.namelist(): the entry names in archive order
namelist(entries) == [k \in 1..Len(entries) |-> entries[k].name]

\* zf.open(n): the member the name maps to, which is the last entry so named
zf_open(entries, n) ==
    entries[CHOOSE k \in 1..Len(entries) :
              /\ entries[k].name = n
              /\ \A j \in (k + 1)..Len(entries) : entries[j].name # n]

\* The loop of read_zip: rois.append(self.read(zf.open(n))), until a read
\* raises.  st: the decoder, the list so far, the error.
RECURSIVE unzip_loop(_, _, _)
UnzipOne(st, entries, names, r) ==
    IF r.err # "none" THEN [dec |-> r.dec, rois |-> st.rois, err |-> r.err]
    ELSE unzip_loop([dec |-> r.dec, rois |-> Append(st.rois, r.roi), err |-> "none"],
                    entries, Tail(names))

unzip_loop(st, entries, names) ==
    IF names = <<>> THEN st
    ELSE UnzipOne(st, entries, names,
                  ReadDataFrom(st.dec, zf_open(entries, Head(names)).data,
                               splitext_root(basename(Head(names)))))

UnzipEffect(arc, st) ==
    /\ dec' = st.dec
    /\ zopen' = IF st.err # "none" THEN zopen \cup {[path |-> arc, mode |-> "r"]} ELSE zopen
    /\ ret' = Ret("read_zip", st.err, arc, NoRoi, IF st.err = "none" THEN st.rois ELSE <<>>)

read_zip(zip_path) ==
    IF NormPath(zip_path) \notin DOMAIN zips
    THEN /\ ret' = Ret("read_zip", "FileNotFoundError", NormPath(zip_path), NoRoi, <<>>)
         /\ UNCHANGED <<dec, zopen>>
    ELSE IF ~zips[NormPath(zip_path)].closed
    THEN \* no central directory has been written
         /\ ret' = Ret("read_zip", "BadZipFile", NormPath(zip_path), NoRoi, <<>>)
         /\ UNCHANGED <<dec, zopen>>
    ELSE UnzipEffect(NormPath(zip_path),
                     unzip_loop([dec |-> dec, rois |-> <<>>, err |-> "none"],
                                zips[NormPath(zip_path)].entries,
                                namelist(zips[NormPath(zip_path)].entries)))

ReadZip(zip_path) ==
    /\ read_zip(zip_path)
    /\ UNCHANGED <<fs, dirs, zips, enc, origin>>

\* A ZipFile object that was left open is collected: ZipFile.__del__ closes
\* it, which for an archive being written writes its central directory.
Collect(h) ==
    /\ h \in zopen
    /\ zopen' = zopen \ {h}
    /\ zips' = IF h.mode = "w" /\ ~\E g \in zopen \ {h} : g.path = h.path /\ g.mode = "w"
               THEN [zips EXCEPT ![h.path].closed = TRUE] ELSE zips
    /\ UNCHANGED <<fs, dirs, enc, dec, ret, origin>>

\* ------------------------------------------------------------ specifications
\* Sessions of one encoder and one decoder on the files the encoder writes.
WriteArgs ==
    { <<FilePath, r>> : r \in Rois } \cup { <<MissingDirPath, r>> : r \in RectRois }

Next ==
    \/ \E a \in WriteArgs : Write(a[1], a[2])
    \/ \E arg \in ReadArgs : Read(arg)

Spec == Init /\ [][Next]_vars

\* Decoding of a file that some other program or the encoder wrote, and
\* encoding of what was decoded.
InitBuffer ==
    /\ \/ \E c \in CraftParams : fs = (FilePath :> CraftedBuffers[c])
       \/ \E r \in EncodableRois : fs = (FilePath :> EncodedRois[r].buf)
    /\ dirs = {Dir}
    /\ zips = EmptyMap
    /\ zopen = {}
    /\ enc = [header2_offset |-> 0, f_obj |-> "none"]
    /\ dec = [ has_data |-> FALSE, data |-> <<>>, name |-> <<>>,
               header |-> EmptyHeader, is_composite |-> FALSE ]
    /\ ret = Ret("init", "none", <<>>, NoRoi, <<>>)
    /\ origin = EmptyMap

NextBuffer ==
    \/ \E arg \in ReadArgs : Read(arg)
    \/ WriteBack

SpecBuffer == InitBuffer /\ [][NextBuffer]_vars

\* An archive that another program wrote: a rectangle the decoder reads,
\* then an oval, which it has no reader for.
ForeignEntries ==
    << [ name |-> <<"a">> \o Ext,
         data |-> EncodedRois[ROIRect(10, 5, 50, 40, 0, <<"a">>, 1)].buf ],
       [ name |-> <<"b">> \o Ext,
         data |-> CraftedBuffers[CraftParam(MagicBytes, Version, 2, 0, 80, <<0, 5, 6, 4>>, 144)] ] >>

\* Archives: write_zip and read_zip on one archive path, where there is no
\* archive at first or one that another program wrote.
InitZip ==
    /\ fs = EmptyMap
    /\ dirs = {Dir}
    /\ zips \in { EmptyMap, ArcPath :> [entries |-> ForeignEntries, closed |-> TRUE] }
    /\ zopen = {}
    /\ enc = [header2_offset |-> 0, f_obj |-> "none"]
    /\ dec = [ has_data |-> FALSE, data |-> <<>>, name |-> <<>>,
               header |-> EmptyHeader, is_composite |-> FALSE ]
    /\ ret = Ret("init", "none", <<>>, NoRoi, <<>>)
    /\ origin = EmptyMap

NextZip ==
    \/ \E rois \in RoiLists : WriteZip(ArcPath, rois)
    \/ ReadZip(ArcPath)
    \/ \E h \in zopen : Collect(h)

SpecZip == InitZip /\ [][NextZip]_vars

\* ------------------------------------------------------------ properties
\* the stem of FilePath, which ROIDecoder.read makes the name of the ROI
PathStem == <<"a">>

\* The last call was read(path) of a file that the last write to that path
\* wrote without raising.
ReadOfWritten == ret.op = "read_str" /\ ret.path \in DOMAIN origin
Written == origin[ret.path][1]

SameBounds(a, b) ==
    a.top = b.top /\ a.left = b.left /\ a.bottom = b.bottom /\ a.right = b.right

\* C1, as amended: a rectangle ROI whose bounds fit int16 and whose position
\* fits int32, written with ROIEncoder.write and read with ROIDecoder.read,
\* comes back as a rectangle ROI with identical top, left, bottom, right and
\* position; its name is the stem of the path it was read from, so it is
\* the original name when the file is named <name>.roi.
C1_RectRoundTrip ==
    (ReadOfWritten /\ Written.type = "rect") =>
        /\ ret.err = "none"
        /\ ret.roi.type = "rect"
        /\ SameBounds(ret.roi, Written)
        /\ ret.roi.position = Written.position
        /\ ret.roi.name = PathStem
        /\ (Written.name = PathStem => ret.roi.name = Written.name)

C1_Witness ==
    /\ ReadOfWritten
    /\ Written = ROIRect(-32768, -1, 32767, 256, 0, <<"a">>, 2147483647)
    /\ ret.roi = Written

\* C1 as stated: the name that comes back is the name of the ROI written.
C1_AsStated ==
    (ReadOfWritten /\ Written.type = "rect") =>
        /\ ret.err = "none"
        /\ ret.roi.type = "rect"
        /\ SameBounds(ret.roi, Written)
        /\ ret.roi.position = Written.position
        /\ ret.roi.name = Written.name

\* |a - b| is within the rounding of b to single precision: zero up to 2^24
NearF32(a, b) == Abs(a - b) <= Abs(b) \div 16777216
NearAllF32(s, t) == Len(s) = Len(t) /\ \A i \in 1..Len(t) : NearF32(s[i], t[i])

\* C2, as amended: a shape ROI with n coordinate pairs, written and read,
\* comes back as a shape ROI whose x_coords and y_coords have n elements
\* each, in the original order, each the original value rounded to single
\* precision (so identical for values single precision represents).
C2_ShapeRoundTrip ==
    (ReadOfWritten /\ Written.type = "shape") =>
        /\ ret.err = "none"
        /\ ret.roi.type = "shape"
        /\ NearAllF32(ret.roi.x_coords, Written.x_coords)
        /\ NearAllF32(ret.roi.y_coords, Written.y_coords)

C2_Witness ==
    /\ ReadOfWritten
    /\ Written.type = "shape"
    /\ Written.x_coords = <<1, 2>>
    /\ ret.roi.x_coords = <<1, 2>>
    /\ ret.roi.y_coords = <<4, 5>>

\* C2 as stated: the coordinates that come back equal the originals.
C2_AsStated ==
    (ReadOfWritten /\ Written.type = "shape") =>
        /\ ret.err = "none"
        /\ ret.roi.type = "shape"
        /\ ret.roi.x_coords = Written.x_coords
        /\ ret.roi.y_coords = Written.y_coords

\* The file at FilePath holds a shape ROI that write() encoded.
ShapeOnDisk == FilePath \in DOMAIN origin /\ origin[FilePath][1].type = "shape"
OnDisk == origin[FilePath][1]
ShapeRoiSizeOnDisk == UnpackI(SubSeq(fs[FilePath], 37, 40))

\* the layout of the array a for the pairs of roi, but for its element 0
PairsLaidOut(a, roi, n) ==
    /\ Len(a) = 3 * n + 1
    /\ a[Len(a)] = 4
    /\ \A i \in 0..(n - 1) :
         /\ a[3 * i + 2] = roi.y_coords[i + 1]
         /\ a[3 * i + 3] = roi.x_coords[i + 1]
         /\ (i < n - 1 => a[3 * i + 4] = 1)

\* C3, as amended: the float array built for a shape ROI with n pairs has
\* length 3n+1, elements 3i+1 and 3i+2 are y_i and x_i, every element 3i+3
\* before the last is 1.0, the last element is 4.0, and for n >= 1 element
\* 0 is 0.0 (for n = 0 the array is the single element 4.0); the
\* SHAPE_ROI_SIZE written is 3n+1.
C3_ShapeArray ==
    ShapeOnDisk =>
        /\ PairsLaidOut(get_shapeArray(OnDisk), OnDisk, Len(OnDisk.x_coords))
        /\ (Len(OnDisk.x_coords) >= 1 => get_shapeArray(OnDisk)[1] = 0)
        /\ (Len(OnDisk.x_coords) = 0 => get_shapeArray(OnDisk) = <<4>>)
        /\ ShapeRoiSizeOnDisk = 3 * Len(OnDisk.x_coords) + 1

C3_Witness ==
    /\ ShapeOnDisk
    /\ OnDisk.x_coords = <<16777217, 0>>
    /\ get_shapeArray(OnDisk) = <<0, 4, 16777217, 1, 1, 0, 4>>
    /\ ShapeRoiSizeOnDisk = 7

\* C3 as stated: element 0 of the array is 0.0 for every n.
C3_AsStated ==
    ShapeOnDisk =>
        /\ PairsLaidOut(get_shapeArray(OnDisk), OnDisk, Len(OnDisk.x_coords))
        /\ get_shapeArray(OnDisk)[1] = 0
        /\ ShapeRoiSizeOnDisk = 3 * Len(OnDisk.x_coords) + 1

\* The last call was a read that got as far as decoding the bytes in
\* dec.data.
Decoded ==
    \/ ret.op = "read_str" /\ ret.err # "FileNotFoundError"
    \/ ret.op = "read_other" /\ dec.has_data

MagicOf(b) == SubSeq(b, 1, 4)

\* C4: a read of a buffer that has 4 first bytes and they are not the magic
\* raises the format error (IOError) and returns no ROI, whatever type tag,
\* SHAPE_ROI_SIZE and header-2 offset the buffer holds, and no header field
\* has been read when it raises.
C4_BadMagic ==
    (Decoded /\ Len(dec.data) >= 4 /\ MagicOf(dec.data) # MagicBytes) =>
        /\ ret.err = "IOError"
        /\ ret.roi = NoRoi
        /\ dec.header = EmptyHeader

C4_Witness ==
    /\ Decoded
    /\ Len(dec.data) >= header1_size
    /\ MagicOf(dec.data) = <<73, 111, 117, 84>>
    /\ dec.data[7] = 2
    /\ ret.err = "IOError"

\* the fields of header 1 of a buffer of at least 64 bytes
TagOf(b) == UnpackSmall(SubSeq(b, 7, 7))
ShapeRoiSizeOf(b) == UnpackI(SubSeq(b, 37, 40))
Header2OffsetOf(b) == UnpackI(SubSeq(b, 61, 64))

\* The last read decoded a buffer with the magic and all of header 1.
DecodedValid ==
    Decoded /\ Len(dec.data) >= header1_size /\ MagicOf(dec.data) = MagicBytes

\* Header block 2 lies inside the buffer.
Header2Inside(b) ==
    Header2OffsetOf(b) >= 0 /\ Header2OffsetOf(b) + header2_size <= Len(b)

\* The SHAPE_ROI_SIZE floats that follow header 1 lie inside the buffer.
FloatsInside(b) == header1_size + 4 * ShapeRoiSizeOf(b) <= Len(b)

\* C5, as amended: for a buffer with the magic, SHAPE_ROI_SIZE > 0 and header
\* block 2 inside the buffer: a type tag other than 1 makes the read raise
\* the invalid-composite-type error (Exception) and return no ROI, whatever
\* the tag is; with tag 1 and the floats inside the buffer the read returns
\* a shape ROI, never a rectangle.
C5_Composite ==
    (DecodedValid /\ ShapeRoiSizeOf(dec.data) > 0 /\ Header2Inside(dec.data)) =>
        /\ (TagOf(dec.data) # 1 => ret.err = "Exception" /\ ret.roi = NoRoi)
        /\ (TagOf(dec.data) = 1 /\ FloatsInside(dec.data) =>
                ret.err = "none" /\ ret.roi.type = "shape")

C5_Witness ==
    /\ DecodedValid
    /\ ShapeRoiSizeOf(dec.data) = 4
    /\ Header2Inside(dec.data)
    /\ TagOf(dec.data) = 11
    /\ ret.err = "Exception"

\* C5 as stated: for every buffer with the magic and SHAPE_ROI_SIZE > 0.
C5_AsStated ==
    (DecodedValid /\ ShapeRoiSizeOf(dec.data) > 0) =>
        /\ (TagOf(dec.data) # 1 => ret.err = "Exception" /\ ret.roi = NoRoi)
        /\ (TagOf(dec.data) = 1 => ret.err = "none" /\ ret.roi.type = "shape")

\* C6 as stated: a write of a ROI of an unsupported kind raises the
\* unsupported-variant error (NotImplementedError) and leaves the files as
\* they were: nothing is written to the destination.
C6_AsStated ==
    [][ (ret'.op = "write" /\ ret'.kind \in UnsupportedKinds) =>
            (ret'.err = "NotImplementedError" /\ fs' = fs) ]_vars

\* C7, as amended: for a buffer with the magic, SHAPE_ROI_SIZE <= 0 and header
\* block 2 inside the buffer: with type tag 1 the read returns a rectangle
\* ROI; with any of the tags 0 and 2..10, tag 8 included, it raises the
\* unsupported-variant error (NotImplementedError) and nothing else.
C7_Dispatch ==
    (DecodedValid /\ ShapeRoiSizeOf(dec.data) <= 0 /\ Header2Inside(dec.data)) =>
        /\ (TagOf(dec.data) = 1 => ret.err = "none" /\ ret.roi.type = "rect")
        /\ (TagOf(dec.data) \in (0..10) \ {1} =>
                ret.err = "NotImplementedError" /\ ret.roi = NoRoi)

C7_Witness ==
    /\ DecodedValid
    /\ ShapeRoiSizeOf(dec.data) = 0
    /\ Header2Inside(dec.data)
    /\ TagOf(dec.data) = 8
    /\ ret.err = "NotImplementedError"

\* C7 as stated: for every buffer with the magic and SHAPE_ROI_SIZE <= 0.
C7_AsStated ==
    (DecodedValid /\ ShapeRoiSizeOf(dec.data) <= 0) =>
        /\ (TagOf(dec.data) = 1 => ret.err = "none" /\ ret.roi.type = "rect")
        /\ (TagOf(dec.data) \in (0..10) \ {1} =>
                ret.err = "NotImplementedError" /\ ret.roi = NoRoi)

\* The name of a ROI occurs once in the list.
DistinctNames(rois) ==
    \A i, j \in 1..Len(rois) : rois[i].name = rois[j].name => i = j

\* The last call was read_zip of an archive that the last write_zip wrote
\* without raising, from ROIs with pairwise distinct names.
ReadOfArchive ==
    /\ ret.op = "read_zip"
    /\ ArcPath \in DOMAIN origin
    /\ DistinctNames(origin[ArcPath])

SameButCoords(a, b) ==
    a.type = b.type /\ SameBounds(a, b) /\ a.position = b.position /\ a.name = b.name

C9_AsStated ==
    (ret.op = "write_zip" /\ ~DistinctNames(ret.rois)) =>
        /\ ret.err = "DuplicateNameError"
        /\ ArcPath \notin DOMAIN zips

\* The last call encoded again, to BackPath, the ROI that a read of the
\* buffer in dec.data had returned.
EncodedAgain == ret.op = "write" /\ ret.path = BackPath /\ ret.err = "none"

\* the two buffers hold the same bytes at offsets a .. b-1
AgreeOn(b1, b2, a, b) == Slice(b1, a, b) = Slice(b2, a, b)

\* the same name offset and name length in header 2 of each
AgreeOnNameFields(b1, b2) ==
    Slice(b1, Header2OffsetOf(b1) + 16, Header2OffsetOf(b1) + 24)
      = Slice(b2, Header2OffsetOf(b2) + 16, Header2OffsetOf(b2) + 24)

\* the buffers ROIEncoder.write produces for ROIs named as the stem of
\* FilePath
EncoderMade == { EncodedRois[r].buf : r \in { q \in EncodableRois : q.name = PathStem } }

\* C10, as amended: when a buffer b decodes to a ROI r, encoding r gives a
\* buffer that agrees with b on magic, type tag, top, left, bottom, right
\* and position; when b is what the encoder wrote for a ROI named as the
\* stem under which b is read, the new buffer is b, byte for byte.
C10_EncodeDecoded ==
    EncodedAgain =>
        /\ AgreeOn(dec.data, fs[BackPath], 0, 4)
        /\ AgreeOn(dec.data, fs[BackPath], 6, 7)
        /\ AgreeOn(dec.data, fs[BackPath], 8, 16)
        /\ AgreeOn(dec.data, fs[BackPath], 56, 60)
        /\ (dec.data \in EncoderMade => fs[BackPath] = dec.data)

C10_Witness ==
    /\ EncodedAgain
    /\ origin[BackPath][1].type = "shape"
    /\ dec.data \in EncoderMade
    /\ fs[BackPath] = dec.data

\* C10 as stated: the new buffer agrees with b on magic, version, type tag,
\* bounds, position, SHAPE_ROI_SIZE, header-2 offset, the float array, name
\* offset and name length.
C10_AsStated ==
    EncodedAgain =>
        /\ AgreeOn(dec.data, fs[BackPath], 0, 7)
        /\ AgreeOn(dec.data, fs[BackPath], 8, 16)
        /\ AgreeOn(dec.data, fs[BackPath], 36, 40)
        /\ AgreeOn(dec.data, fs[BackPath], 56, 64)
        /\ AgreeOn(dec.data, fs[BackPath], 64, 64 + 4 * ShapeRoiSizeOf(fs[BackPath]))
        /\ AgreeOnNameFields(dec.data, fs[BackPath])

\* C11 as stated: a call of write, write_zip or read_zip leaves no handle
\* open that was not open before it, whether it returns or raises: neither
\* the file object of the encoder nor a ZipFile.
C11_AsStated ==
    [][ (ret' # ret /\ ret'.op \in {"write", "write_zip", "read_zip"}) =>
            /\ (enc'.f_obj = "open" => enc.f_obj = "open")
            /\ zopen' \subseteq zopen ]_vars

\* The file at FilePath is one that write() encoded without raising.
EncodedOnDisk == FilePath \in DOMAIN origin
Header2OffsetOnDisk == Header2OffsetOf(fs[FilePath])
NameOffsetOnDisk ==
    UnpackI(Slice(fs[FilePath], Header2OffsetOnDisk + 16, Header2OffsetOnDisk + 20))
NameLengthOnDisk ==
    UnpackI(Slice(fs[FilePath], Header2OffsetOnDisk + 20, Header2OffsetOnDisk + 24))

\* C12 as stated: in the file encoded for a ROI named s, NAME_OFFSET is the
\* header-2 offset plus 64, NAME_LENGTH is the number of bytes of the UTF-8
\* encoding of s, and the bytes from NAME_OFFSET on, NAME_LENGTH of them, are
\* the complete UTF-8 encoding of s.
C12_AsStated ==
    EncodedOnDisk =>
        /\ NameOffsetOnDisk = Header2OffsetOnDisk + header2_size
        /\ NameLengthOnDisk = Len(Utf8(OnDisk.name))
        /\ Slice(fs[FilePath], NameOffsetOnDisk, NameOffsetOnDisk + NameLengthOnDisk)
             = Utf8(OnDisk.name)

\* the header-2 offset a fresh encoder writes for the ROI
FreshHeader2Offset(roi) ==
    IF roi.type = "shape" THEN header1_size + 4 * (3 * Len(roi.x_coords) + 1)
    ELSE header1_size

\* C13 as stated: a file that write() encoded has header 2 where a fresh
\* encoder puts it, whatever was written before, and a read returns a ROI
\* only from the bytes of the file at the path it was given, named by that
\* path: never from data or a name that an earlier read left in the decoder.
C13_AsStated ==
    /\ EncodedOnDisk => Header2OffsetOnDisk = FreshHeader2Offset(OnDisk)
    /\ (ret.op \in {"read_str", "read_other"} /\ ret.roi # NoRoi) =>
          /\ ret.path \in DOMAIN fs
          /\ dec.data = fs[ret.path]
          /\ ret.roi.name = PathStem
====
